---- MODULE Spec2Model ----
(***************************************************************************)
(* State-machine model of the annotation tool's data model (Annotation,    *)
(* Sample), of the LARa motion-capture reader, of the mocap visualizer,    *)
(* of the new-annotation dialog and of the main controller.                *)
(*                                                                         *)
(* Python values of different types are modelled as records with a "kind"  *)
(* tag, so that an absent value (None), a value of the wrong type and a    *)
(* value of the right type can be compared.                                 *)
(***************************************************************************)
EXTENDS Integers, Sequences, FiniteSets, TLC

VARIABLES
    annotation,   \* the Annotation object (exists = FALSE before construction)
    lastOp,       \* name of the last operation called
    lastArg,      \* argument of the last call
    lastErr,      \* exception the last call raised, "none" if it returned
    lastRet,      \* value the last call returned (NoValue if it raised)
    mocap_file,   \* the file handed to the LARa reader
    mocap_result, \* what __load_lara_mocap__ returned or raised for it
    skeleton_frame,  \* the frame row handed to calculate_skeleton
    skeleton_points,  \* the array calculate_skeleton returned for it
    player_file,  \* the file handed to MocapPlayer.load
    player,  \* the MocapPlayer and its MocapBackend (media)
    player_op,  \* name and outcome of the last call on the player
    set_position_calls,  \* number of MocapBackend.set_position calls so far
    sample_a,  \* a Sample object (src/data_classes/sample.py)
    sample_b,  \* another Sample object
    sample_op,  \* name and outcome of the last call on one of the two
    dialog,  \* the QNewAnnotationDialog: its fields, button, and what it emitted
    dialog_op,  \* name and outcome of the last call on the dialog
    app,  \* the MainApplication with its mediator, widgets and annotation controller
    app_op  \* name, argument, outcome and sequence of calls of the last handler run

annotationVars == <<annotation, lastOp, lastArg, lastErr, lastRet>>
laraVars == <<mocap_file, mocap_result>>
skeletonVars == <<skeleton_frame, skeleton_points>>
playerVars == <<player_file, player, player_op, set_position_calls>>
sampleVars == <<sample_a, sample_b, sample_op>>
dialogVars == <<dialog, dialog_op>>
appVars == <<app, app_op>>
\* the variables an operation of one component leaves alone
nonAnnotationVars == <<laraVars, skeletonVars, playerVars, sampleVars, dialogVars, appVars>>
nonLaraVars == <<annotationVars, skeletonVars, playerVars, sampleVars, dialogVars, appVars>>
nonSkeletonVars == <<annotationVars, laraVars, playerVars, sampleVars, dialogVars, appVars>>
nonPlayerVars == <<annotationVars, laraVars, skeletonVars, sampleVars, dialogVars, appVars>>
nonSampleVars == <<annotationVars, laraVars, skeletonVars, playerVars, dialogVars, appVars>>
nonDialogVars == <<annotationVars, laraVars, skeletonVars, playerVars, sampleVars, appVars>>
nonAppVars == <<annotationVars, laraVars, skeletonVars, playerVars, sampleVars, dialogVars>>
vars == <<annotationVars, laraVars, skeletonVars, playerVars, sampleVars, dialogVars, appVars>>

(***************************************************************************)
(* Bounds                                                                  *)
(***************************************************************************)
MaxPos == 1          \* sample positions range over -1 .. MaxPos
MaxLen == 2          \* longest list handed to a setter
MaxFrames == 20      \* frame count of the longest media file
SchemeDim == 2       \* number of label dimensions of the dataset's scheme
MaxFrameSeed == 9    \* frame rows are generated from two seeds in 0 .. MaxFrameSeed
MaxUpdates == 3      \* most MocapBackend.set_position calls in one run
MaxExtraFrames == 500 \* frames of the longest media beyond the required minimum
MaxDatasets == 2     \* most datasets configured

NoValue == [kind |-> "NoValue"]

(***************************************************************************)
(* Label vectors (single annotations)                                      *)
(***************************************************************************)
empty_annotation == [i \in 1..SchemeDim |-> 0]
LabelVector == [i \in 1..SchemeDim |-> IF i = 1 THEN 1 ELSE 0]
AnnotationVectors == {empty_annotation, LabelVector}
is_empty(a) == \A i \in DOMAIN a : a[i] = 0

(***************************************************************************)
(* Samples: Sample(start, end, annotation) stores its arguments as given;  *)
(* the constructor only asserts that the annotation is an annotation.      *)
(***************************************************************************)
Positions == -1..MaxPos

Sample(start, end, a) ==
    [kind |-> "Sample", start_position |-> start, end_position |-> end,
     annotation |-> a]

SampleObjects ==
    {Sample(s, e, a) : s \in Positions, e \in Positions, a \in AnnotationVectors}

\* what a Python list handed to the samples setter may hold
NoneElement == [kind |-> "None", start_position |-> 0, end_position |-> 0,
                annotation |-> empty_annotation]
OtherElement == [kind |-> "Other", start_position |-> 0, end_position |-> 0,
                 annotation |-> empty_annotation]
ListElements == SampleObjects \cup {NoneElement, OtherElement}

SeqsUpTo(S, n) == UNION {[1..k -> S] : k \in 0..n}
SampleLists == SeqsUpTo(ListElements, MaxLen)

(***************************************************************************)
(* The file system the program runs against                                *)
(***************************************************************************)
Paths == {"media", "copy", "short", "empty", "missing"}

is_file(p) == p # "missing"
getsize(p) == IF p = "empty" THEN 0 ELSE 1
\* content fingerprint: "copy" holds the same bytes as "media"
footprint_of_file(p) ==
    CASE p = "media"   -> "hashA"
      [] p = "copy"    -> "hashA"
      [] p = "short"   -> "hashB"
      [] p = "empty"   -> "hashEmpty"
      [] p = "missing" -> "FileNotFoundError"
\* len(media_reader(p)) for the media files
media_len(p) == IF p = "short" THEN 1 ELSE MaxFrames

(***************************************************************************)
(* Annotation                                                              *)
(***************************************************************************)
NoAnnotation ==
    [exists |-> FALSE, annotator_id |-> 0, dataset |-> "None", name |-> 0,
     annotated_file |-> "missing", file_hash |-> "None", samples |-> <<>>,
     additional_media_paths |-> <<>>]

\* constructor arguments: kind is the Python type, val the value where it matters
AnnotatorIds == {[kind |-> "None", val |-> 0], [kind |-> "str", val |-> 0],
                 [kind |-> "int", val |-> -1], [kind |-> "int", val |-> 0],
                 [kind |-> "int", val |-> 1]}
Datasets == {"None", "NotADataset", "Dataset"}
\* a name is modelled by its length
Names == {[kind |-> "None", val |-> 0], [kind |-> "int", val |-> 0],
          [kind |-> "str", val |-> 0], [kind |-> "str", val |-> 1]}
PathArgs == {[kind |-> "None", val |-> "missing"], [kind |-> "str", val |-> "media"]}
            \cup {[kind |-> "Path", val |-> p] : p \in Paths}

CreateArgs == [annotator_id : AnnotatorIds, dataset : Datasets, name : Names,
               file_path : PathArgs]

\* Annotation.__init_valid__: TRUE iff every assertion passes
init_valid(args) ==
    /\ args.dataset # "None"
    /\ args.dataset = "Dataset"
    /\ args.name.kind # "None"
    /\ args.name.kind = "str"
    /\ args.name.val > 0
    /\ args.annotator_id.kind # "None"
    /\ args.annotator_id.kind = "int"
    /\ args.annotator_id.val >= 0
    /\ args.file_path.kind # "None"
    /\ args.file_path.kind = "Path"
    /\ is_file(args.file_path.val)
    /\ getsize(args.file_path.val) > 0

\* mutant: the sample ends at len(media) instead of len(media) - 1
init_samples_off_by_one(p) == <<Sample(0, media_len(p), empty_annotation)>>

\* Annotation.__init_samples__: one empty sample over the whole file
init_samples(p) == <<Sample(0, media_len(p) - 1, empty_annotation)>>

\* Annotation.__post_init__: the object, or the exception raised
post_init(args) ==
    IF ~init_valid(args)
    THEN [err |-> "AssertionError", obj |-> NoAnnotation]
    ELSE [err |-> "none",
          obj |-> [exists |-> TRUE,
                   annotator_id |-> args.annotator_id.val,
                   dataset |-> args.dataset,
                   name |-> args.name.val,
                   annotated_file |-> args.file_path.val,
                   file_hash |-> footprint_of_file(args.file_path.val),
                   samples |-> init_samples(args.file_path.val),
                   additional_media_paths |-> <<>>]]

\* mutant: the constructor is called without the try/except
create_annotation_uncaught(args) == post_init(args)

\* create_annotation: an AssertionError of the constructor becomes a ValueError
create_annotation(args) ==
    LET r == post_init(args)
    IN  IF r.err = "AssertionError"
        THEN [err |-> "ValueError", obj |-> r.obj]
        ELSE r

(***************************************************************************)
(* Annotation.samples (setter)                                             *)
(***************************************************************************)
RECURSIVE samples_loop(_, _, _)
\* the for loop of the setter from element i on; last is the previous end
samples_loop(list, i, last) ==
    IF i > Len(list) THEN "none"
    ELSE IF list[i].kind = "None" THEN "ValueError"
    ELSE IF list[i].kind # "Sample" THEN "ValueError"
    ELSE IF list[i].start_position # last + 1 THEN "ValueError"
    ELSE samples_loop(list, i + 1, list[i].end_position)

\* mutant: the length check is missing
samples_setter_no_length_check(list_of_samples) ==
    samples_loop(list_of_samples, 1, -1)

\* the exception the setter raises for list_of_samples, "none" if it stores it
samples_setter(list_of_samples) ==
    IF Len(list_of_samples) = 0 THEN "ValueError"
    ELSE samples_loop(list_of_samples, 1, -1)

\* mutant: the list is stored before its elements are checked
samples_stored_before_check(_samples, list_of_samples) ==
    IF Len(list_of_samples) = 0 THEN _samples ELSE list_of_samples

\* self._samples after the setter ran: the assignment is the last statement,
\* behind every raise
samples_stored(_samples, list_of_samples) ==
    IF samples_setter(list_of_samples) = "none" THEN list_of_samples ELSE _samples

(***************************************************************************)
(* Annotation.to_numpy                                                     *)
(***************************************************************************)
RECURSIVE repeat(_, _)
\* for _ in range(n): x.append(v)   (range(n) is empty for n <= 0)
repeat(v, n) == IF n <= 0 THEN <<>> ELSE <<v>> \o repeat(v, n - 1)

RECURSIVE to_numpy(_)
to_numpy(samples) ==
    IF samples = <<>> THEN <<>>
    ELSE LET sample == Head(samples)
             lower == sample.start_position
             upper == sample.end_position
         IN  repeat(sample.annotation, upper - lower + 1) \o to_numpy(Tail(samples))

(***************************************************************************)
(* IEEE-754 double arithmetic, as far as Annotation.progress uses it.      *)
(* A positive double is [mant, exp]: mant is the 53-bit significand as a   *)
(* sequence of bits, least significant first, and the value is             *)
(* mant * 2^exp.  Every operation rounds to nearest, ties to even.         *)
(***************************************************************************)
MantBits == 53

RECURSIVE bits_inc(_)
\* bits + 1 (the result may be one bit longer)
bits_inc(bits) ==
    IF bits = <<>> THEN <<1>>
    ELSE IF Head(bits) = 0 THEN <<1>> \o Tail(bits)
    ELSE <<0>> \o bits_inc(Tail(bits))

RECURSIVE bits_add(_, _, _)
\* x + y + carry
bits_add(x, y, carry) ==
    IF x = <<>> /\ y = <<>> THEN (IF carry = 1 THEN <<1>> ELSE <<>>)
    ELSE LET a == IF x = <<>> THEN 0 ELSE Head(x)
             b == IF y = <<>> THEN 0 ELSE Head(y)
             s == a + b + carry
         IN  <<s % 2>> \o bits_add(IF x = <<>> THEN x ELSE Tail(x),
                                   IF y = <<>> THEN y ELSE Tail(y), s \div 2)

\* x * 2^k
bits_shl(x, k) == [i \in 1..k |-> 0] \o x

RECURSIVE bits_to_int(_)
bits_to_int(bits) ==
    IF bits = <<>> THEN 0 ELSE Head(bits) + 2 * bits_to_int(Tail(bits))

\* round a bit string of at least MantBits bits, top bit 1, times 2^exp, to a
\* double; half is the comparison of the dropped part with one half unit in
\* the last place: -1 below, 0 equal, 1 above
float_round(kept, exp, half) ==
    LET up == half = 1 \/ (half = 0 /\ kept[1] = 1)
        inc == bits_inc(kept)
    IN  IF ~up THEN [mant |-> kept, exp |-> exp]
        ELSE IF Len(inc) > MantBits
        THEN [mant |-> SubSeq(inc, 2, MantBits + 1), exp |-> exp + 1]
        ELSE [mant |-> inc, exp |-> exp]

RECURSIVE div_bits(_, _, _, _)
\* k more quotient bits of rem / d (rem < d), put in front of acc (least
\* significant first), and the remainder left after them
div_bits(rem, d, k, acc) ==
    IF k = 0 THEN [bits |-> acc, rem |-> rem]
    ELSE IF 2 * rem >= d THEN div_bits(2 * rem - d, d, k - 1, <<1>> \o acc)
    ELSE div_bits(2 * rem, d, k - 1, <<0>> \o acc)

RECURSIVE norm_shift(_, _, _)
\* scale a and n by powers of two until n <= a < 2n; e is the exponent of a/n
norm_shift(a, n, e) ==
    IF a < n THEN norm_shift(2 * a, n, e - 1)
    ELSE IF a >= 2 * n THEN norm_shift(a, 2 * n, e + 1)
    ELSE [a |-> a, n |-> n, e |-> e]

\* a / n for integers a > 0, n > 0: the correctly rounded quotient
float_div(a, n) ==
    LET s == norm_shift(a, n, 0)
        q == div_bits(s.a - s.n, s.n, MantBits - 1, <<1>>)
        kept == q.bits
        half == IF 2 * q.rem > s.n THEN 1 ELSE IF 2 * q.rem = s.n THEN 0 ELSE -1
    IN  float_round(kept, s.e - (MantBits - 1), half)

\* x * 100 for a double x > 0
float_mul100(x) ==
    LET p == bits_add(bits_add(bits_shl(x.mant, 6), bits_shl(x.mant, 5), 0),
                      bits_shl(x.mant, 2), 0)
        drop == Len(p) - MantBits
        kept == SubSeq(p, drop + 1, Len(p))
        guard == p[drop]
        sticky == \E i \in 1..(drop - 1) : p[i] = 1
        half == IF guard = 0 THEN -1 ELSE IF sticky THEN 1 ELSE 0
    IN  float_round(kept, x.exp + drop, half)

\* floor and ceil of a double 0 < x < 2^MantBits
float_floor(x) ==
    LET f == -x.exp
    IN  IF f >= MantBits THEN 0
        ELSE bits_to_int(SubSeq(x.mant, f + 1, MantBits))
float_ceil(x) ==
    LET f == -x.exp
        frac == \E i \in 1..f : i <= MantBits /\ x.mant[i] = 1
    IN  float_floor(x) + (IF frac THEN 1 ELSE 0)

\* math.ceil(n_annotations / n_frames * 100), n_frames # 0
ceil_percent(n_annotations, n_frames) ==
    IF n_annotations = 0 THEN 0
    ELSE LET neg == (n_annotations < 0) # (n_frames < 0)
             a == IF n_annotations < 0 THEN -n_annotations ELSE n_annotations
             n == IF n_frames < 0 THEN -n_frames ELSE n_frames
             x == float_mul100(float_div(a, n))
         IN  IF neg THEN -float_floor(x) ELSE float_ceil(x)

(***************************************************************************)
(* Annotation.progress                                                     *)
(***************************************************************************)
RECURSIVE n_annotated(_)
\* sum of the lengths of the samples whose annotation is not empty
n_annotated(samples) ==
    IF samples = <<>> THEN 0
    ELSE LET s == Head(samples)
         IN  (IF ~is_empty(s.annotation)
              THEN s.end_position - s.start_position + 1 ELSE 0)
             + n_annotated(Tail(samples))

\* the value of the property, or the exception it raises
progress(samples) ==
    LET n_frames == samples[Len(samples)].end_position + 1
        n_annotations == n_annotated(samples)
    IN  IF n_frames = 0 THEN [err |-> "ZeroDivisionError", val |-> 0]
        ELSE [err |-> "none", val |-> ceil_percent(n_annotations, n_frames)]

(***************************************************************************)
(* Annotation.path (setter)                                                *)
(***************************************************************************)
\* the exception the setter raises for path, "none" if it stores it
path_setter(obj, path) ==
    IF is_file(path) THEN "FileNotFoundError"
    ELSE IF footprint_of_file(path) = "FileNotFoundError" THEN "FileNotFoundError"
    ELSE IF footprint_of_file(path) # obj.file_hash THEN "ValueError"
    ELSE "none"

(***************************************************************************)
(* Annotation.set_additional_media_paths                                   *)
(***************************************************************************)
MaxOffset == 1
Offsets == 0..MaxOffset
AdditionalPaths == {"copy", "missing"}
MediaPathLists == SeqsUpTo(AdditionalPaths \X Offsets, MaxLen)

RECURSIVE additional_loop(_, _, _)
\* the for loop from element i on: the exception raised, or the list built
additional_loop(paths_with_offsets, i, additional_paths) ==
    IF i > Len(paths_with_offsets)
    THEN [err |-> "none", additional_paths |-> additional_paths]
    ELSE IF ~is_file(paths_with_offsets[i][1])
    THEN [err |-> "FileNotFoundError", additional_paths |-> additional_paths]
    ELSE additional_loop(paths_with_offsets, i + 1,
                         Append(additional_paths, paths_with_offsets[i]))

\* mutant: the stored list is replaced although the loop raised
set_additional_media_paths_partial(obj, paths_with_offsets) ==
    LET r == additional_loop(paths_with_offsets, 1, <<>>)
    IN  [err |-> r.err,
         obj |-> [obj EXCEPT !.additional_media_paths = r.additional_paths]]

set_additional_media_paths(obj, paths_with_offsets) ==
    LET r == additional_loop(paths_with_offsets, 1, <<>>)
    IN  [err |-> r.err,
         obj |-> IF r.err = "none"
                 THEN [obj EXCEPT !.additional_media_paths = r.additional_paths]
                 ELSE obj]

(***************************************************************************)
(* LARa motion-capture files.  A file is a sequence of lines; a line is    *)
(* text, or a comma-separated numeric row.  The values of a numeric row    *)
(* are generated from a seed.                                              *)
(***************************************************************************)
DataColumns == 132           \* 22 segments, 6 values each
FullColumns == 134           \* frame number, subject, then the data columns
SegmentCount == 22
SegmentWidth == 6
LowerBackColumn == 66        \* first column of the lower-back block

MaxHeaderLines == 7          \* most text lines in front of the rows
MaxRows == 3                 \* most lines after the leading text lines
MaxSeed == 1                 \* numeric rows are generated from seeds 0 .. MaxSeed

\* value of column j (from 0) of the numeric row with this seed
row_value(seed, j) == (((seed * 7) + j * (seed + 3)) % 11) - 5
NumericRow(cols, seed) == [j \in 1..cols |-> row_value(seed, j - 1)]

TextLine == [kind |-> "text", values |-> <<>>]
NumericLine(cols, seed) == [kind |-> "numeric", values |-> NumericRow(cols, seed)]

RowLines ==
    {TextLine} \cup {NumericLine(cols, seed) :
                        cols \in {DataColumns, DataColumns + 1, FullColumns},
                        seed \in 0..MaxSeed}

MocapFiles ==
    {[exists |-> FALSE, lines |-> <<>>]}
    \cup {[exists |-> TRUE, lines |-> [i \in 1..h |-> TextLine] \o rows] :
             h \in 0..MaxHeaderLines, rows \in SeqsUpTo(RowLines, MaxRows)}

\* is_data_row: the line parses as 132 or 134 numbers
is_data_row(line) ==
    line.kind = "numeric" /\ Len(line.values) \in {DataColumns, FullColumns}

RECURSIVE count_header_lines(_, _, _)
\* the scanning loop from line i on: the header count at the break or at the
\* end of the file, or the TypeError raised inside the loop
count_header_lines(lines, i, header_lines) ==
    IF i > Len(lines) THEN [err |-> "none", header_lines |-> header_lines]
    ELSE IF is_data_row(lines[i]) THEN [err |-> "none", header_lines |-> header_lines]
    ELSE IF header_lines + 1 > 5 THEN [err |-> "TypeError", header_lines |-> header_lines + 1]
    ELSE count_header_lines(lines, i + 1, header_lines + 1)

\* np.loadtxt(path, delimiter=",", skiprows=n): every remaining line must be
\* numeric with one column count; fewer than two rows give a 1-D array
loadtxt(lines, skiprows) ==
    LET rows == SubSeq(lines, skiprows + 1, Len(lines))
    IN  IF \E i \in 1..Len(rows) : rows[i].kind # "numeric"
        THEN [err |-> "ValueError", ndim |-> 0, array |-> <<>>]
        ELSE IF \E i \in 1..Len(rows) : Len(rows[i].values) # Len(rows[1].values)
        THEN [err |-> "ValueError", ndim |-> 0, array |-> <<>>]
        ELSE [err |-> "none",
              ndim |-> IF Len(rows) >= 2 THEN 2 ELSE 1,
              array |-> [i \in 1..Len(rows) |-> rows[i].values]]

\* mutant: only the first leading column is removed
drop_leading_one(array) ==
    [i \in 1..Len(array) |-> SubSeq(array[i], 2, Len(array[i]))]

\* array[:, 2:]
drop_leading(array) ==
    [i \in 1..Len(array) |-> SubSeq(array[i], 3, Len(array[i]))]

\* mutant: the block in front of the lower back is subtracted
normalize_lara_mocap_wrong_block(array) ==
    [i \in 1..Len(array) |->
        [j \in 1..Len(array[i]) |->
            array[i][j]
            - array[i][LowerBackColumn - SegmentWidth + ((j - 1) % SegmentWidth) + 1]]]

\* __normalize_lara_mocap__: 22 copies of columns 66:72 subtracted from the array
normalize_lara_mocap(array) ==
    [i \in 1..Len(array) |->
        [j \in 1..Len(array[i]) |->
            array[i][j] - array[i][LowerBackColumn + ((j - 1) % SegmentWidth) + 1]]]

NoArray == <<>>

\* mutant: any header count up to 5 is accepted
load_lara_mocap_any_header(file) ==
    IF ~file.exists THEN [err |-> "TypeError", array |-> NoArray]
    ELSE LET scan == count_header_lines(file.lines, 1, 0)
         IN  IF scan.err # "none" THEN [err |-> "TypeError", array |-> NoArray]
             ELSE LET t == loadtxt(file.lines, scan.header_lines)
                  IN  IF t.err # "none" \/ t.ndim < 2
                      THEN [err |-> "TypeError", array |-> NoArray]
                      ELSE LET array == IF Len(t.array[1]) = FullColumns
                                        THEN drop_leading(t.array) ELSE t.array
                           IN  [err |-> "none", array |-> normalize_lara_mocap(array)]

\* __load_lara_mocap__: the array, or the exception raised
load_lara_mocap(file) ==
    IF ~file.exists THEN [err |-> "TypeError", array |-> NoArray]
    ELSE LET scan == count_header_lines(file.lines, 1, 0)
         IN  IF scan.err # "none" THEN [err |-> "TypeError", array |-> NoArray]
             ELSE IF scan.header_lines \notin {1, 5}
             THEN [err |-> "TypeError", array |-> NoArray]
             ELSE LET t == loadtxt(file.lines, scan.header_lines)
                  IN  IF t.err # "none" \/ t.ndim < 2
                      THEN [err |-> "TypeError", array |-> NoArray]
                      ELSE LET array == IF Len(t.array[1]) = FullColumns
                                        THEN drop_leading(t.array) ELSE t.array
                           IN  [err |-> "none", array |-> normalize_lara_mocap(array)]

NotLoaded == [err |-> "not loaded", array |-> NoArray]
NoFile == [exists |-> FALSE, lines |-> <<>>]

(***************************************************************************)
(* The mocap visualizer: calculate_skeleton.  A coordinate in metres is    *)
(* the quotient [num, den] of the division the code performs (its          *)
(* rounding to a double is left out).                                      *)
(***************************************************************************)
\* value of column j (from 0) of the frame row with these seeds
frame_value(a, b, j) == ((((a + 1) * j) + (b * (j \div SegmentWidth))) % 23) - 11
FrameRow(a, b) == [j \in 1..DataColumns |-> frame_value(a, b, j - 1)]
FrameRows == {FrameRow(a, b) : a \in 0..MaxFrameSeed, b \in 0..MaxFrameSeed}

NoFrame == <<>>
NoPoints == <<>>

\* offset = 3: the translation values follow the 3 rotation values of a segment
TranslationOffset == 3
MillimetresPerMetre == 1000

\* x / 1000
to_metres(x) == [num |-> x, den |-> MillimetresPerMetre]

\* mutant: the head is joined to itself instead of to the left collar
target_segments_head_to_head ==
    <<0, 0, 11, 6, 21, 7, 2, 4, 5, 3, 9, 11, 11, 16, 21, 17, 12, 14, 15, 13, 19, 11>>

\* the segment whose translation is appended as target of segment i, in the
\* order of the coords.append calls
target_segments ==
    <<2, 0, 11, 6, 21, 7, 2, 4, 5, 3, 9, 11, 11, 16, 21, 17, 12, 14, 15, 13, 19, 11>>

\* calculate_skeleton: source and target points, alternating, in metres
calculate_skeleton(frame) ==
    LET tx == [i \in 1..SegmentCount |-> frame[(i - 1) * SegmentWidth + TranslationOffset + 1]]
        ty == [i \in 1..SegmentCount |-> frame[(i - 1) * SegmentWidth + TranslationOffset + 2]]
        tz == [i \in 1..SegmentCount |-> frame[(i - 1) * SegmentWidth + TranslationOffset + 3]]
        tu == [i \in 1..SegmentCount |->
                  frame[target_segments[i] * SegmentWidth + TranslationOffset + 1]]
        tv == [i \in 1..SegmentCount |->
                  frame[target_segments[i] * SegmentWidth + TranslationOffset + 2]]
        tw == [i \in 1..SegmentCount |->
                  frame[target_segments[i] * SegmentWidth + TranslationOffset + 3]]
        txyz == [i \in 1..SegmentCount |-> <<tx[i], ty[i], tz[i]>>]
        tuvw == [i \in 1..SegmentCount |-> <<tu[i], tv[i], tw[i]>>]
        t_all == [k \in 1..(2 * SegmentCount) |->
                     IF k % 2 = 1 THEN txyz[(k + 1) \div 2] ELSE tuvw[k \div 2]]
    IN  [k \in 1..(2 * SegmentCount) |->
            [c \in 1..3 |-> to_metres(t_all[k][c])]]

(***************************************************************************)
(* The mocap visualizer: MocapBackend and MocapPlayer.  Heights and        *)
(* coordinates are quotients [num, den]; an integer k is [k, 1].           *)
(***************************************************************************)
rat(k) == [num |-> k, den |-> 1]
rat_less(a, b) == a.num * b.den < b.num * a.den
rat_equal(a, b) == a.num * b.den = b.num * a.den
\* a - b
rat_sub(a, b) ==
    IF a.den = b.den THEN [num |-> a.num - b.num, den |-> a.den]
    ELSE [num |-> a.num * b.den - b.num * a.den, den |-> a.den * b.den]
\* min((a, b)): the first of the two unless the second is smaller
rat_min(a, b) == IF rat_less(b, a) THEN b ELSE a

\* the recording with n rows of 134 columns after 5 header lines; the rows
\* are generated from the seeds 0, 1, ..., MaxSeed, 0, ...
PlayerRow(seed) == [j \in 1..FullColumns |-> frame_value(0, seed, j - 1)]
PlayerFile(n) ==
    [exists |-> TRUE,
     lines |-> [i \in 1..5 |-> TextLine]
               \o [i \in 1..n |->
                      [kind |-> "numeric",
                       values |-> PlayerRow((i - 1) % (MaxSeed + 1))]]]
PlayerFiles == {PlayerFile(n) : n \in 0..MaxRows}

NonePosition == [kind |-> "None", val |-> 0]
IntPosition(p) == [kind |-> "int", val |-> p]
\* if self.position: neither None nor 0
truthy(position) == position.kind = "int" /\ position.val # 0

DEFAULT_HEIGHT == -1
RESET_INTERVAL == 100
PlayerFps == 100

\* body_segments_reversed of 'L toe', 'R toe', 'L foot', 'R foot'
floor_segments == <<8, 18, 5, 15>>

\* MocapBackend.__init__
MocapBackend_init ==
    [number_samples |-> 0,
     frames |-> <<>>,
     has_frames |-> FALSE,
     position |-> NonePosition,
     grid_height |-> rat(-1),
     reset_counter |-> 0,
     dynamic_floor |-> FALSE,
     zgrid_visible |-> TRUE,
     zgrid_z |-> rat(0),
     current_skeleton |-> [k \in 1..2 |-> [c \in 1..3 |-> rat(0)]]]

\* MocapBackend.load(path): the backend with the frames, or the exception
backend_load(media, file) ==
    LET t == loadtxt(file.lines, 5)
    IN  IF ~file.exists \/ t.err # "none" \/ t.ndim < 2
        THEN [err |-> "Exception", obj |-> media]
        ELSE LET array == drop_leading(t.array)
             IN  IF Len(array[1]) # DataColumns
                 THEN [err |-> "Exception", obj |-> media]
                 ELSE LET normalized == normalize_lara_mocap(array)
                      IN  [err |-> "none",
                           obj |-> [media EXCEPT
                               !.number_samples = Len(normalized),
                               !.has_frames = TRUE,
                               !.frames = [i \in 1..Len(normalized) |->
                                              calculate_skeleton(normalized[i])]]]

RECURSIVE floor_height(_, _, _)
\* the loop over the foot and toe segments from the i-th on
floor_height(skeleton, i, height) ==
    IF i > Len(floor_segments) THEN height
    ELSE floor_height(skeleton, i + 1,
                      rat_min(height, skeleton[floor_segments[i] * 2 + 1][3]))

\* skeleton - height
lowered(skeleton, height) ==
    [k \in 1..Len(skeleton) |-> [c \in 1..3 |-> rat_sub(skeleton[k][c], height)]]

\* MocapBackend.get_current_skeleton
get_current_skeleton(media) ==
    LET skeleton == media.frames[media.position.val + 1]
    IN  IF media.dynamic_floor
        THEN lowered(skeleton, floor_height(skeleton, 1, rat(0)))
        ELSE skeleton

\* MocapBackend.reset_grid_location
reset_grid_location(media) ==
    [media EXCEPT !.zgrid_z = rat(DEFAULT_HEIGHT), !.grid_height = rat(-1)]

\* MocapBackend.update_grid
update_grid(media) ==
    LET counted == [media EXCEPT !.reset_counter = @ + 1]
        m == IF counted.reset_counter >= RESET_INTERVAL
             THEN [reset_grid_location(counted) EXCEPT !.reset_counter = 0]
             ELSE counted
    IN  IF m.zgrid_visible
        THEN LET height == IF m.dynamic_floor
                           THEN floor_height(m.frames[m.position.val + 1], 1, rat(0))
                           ELSE rat(DEFAULT_HEIGHT)
                 height_delta == rat_sub(height, m.grid_height)
             IN  [m EXCEPT !.grid_height = height,
                           !.zgrid_z = rat_sub(@, rat_sub(rat(0), height_delta))]
        ELSE m

\* mutant: the grid is updated on every position update
set_position_updating_grid(media, new_pos) ==
    LET m == [media EXCEPT !.position = IntPosition(new_pos)]
    IN  update_grid([m EXCEPT !.current_skeleton = get_current_skeleton(m)])

\* MocapBackend.set_position (the call of update_grid is commented out)
set_position(media, new_pos) ==
    LET m == [media EXCEPT !.position = IntPosition(new_pos)]
    IN  [m EXCEPT !.current_skeleton = get_current_skeleton(m)]

\* MocapBackend.set_floor_grid: the backend and the number of set_position
\* calls made
set_floor_grid(media, enable, dynamic) ==
    LET m == [media EXCEPT !.zgrid_visible = enable]
    IN  IF dynamic # m.dynamic_floor
        THEN LET d == [m EXCEPT !.dynamic_floor = dynamic]
             IN  IF truthy(d.position)
                 THEN [obj |-> set_position(d, d.position.val), calls |-> 1]
                 ELSE [obj |-> d, calls |-> 0]
        ELSE [obj |-> m, calls |-> 0]

\* MocapPlayer.__init__ with the settings mocap_grid and mocap_grid_dynamic;
\* position and offset are the attributes of AbstractMediaPlayer
MocapPlayer_init(show_mocap_grid, use_dynamic_mocap_grid) ==
    [media |-> set_floor_grid(MocapBackend_init, show_mocap_grid,
                              use_dynamic_mocap_grid).obj,
     loaded |-> FALSE,
     n_frames |-> 0,
     fps |-> 0,
     position |-> 0,
     offset |-> 0]

\* MocapPlayer.load
player_load(p, file) ==
    LET r == backend_load(p.media, file)
    IN  IF r.err # "none" THEN [err |-> r.err, obj |-> p]
        ELSE [err |-> "none",
              obj |-> [p EXCEPT !.media = set_position(r.obj, 0),
                                !.loaded = TRUE,
                                !.n_frames = Len(r.obj.frames),
                                !.fps = PlayerFps]]

\* mutant: the offset of the stream is ignored
update_media_position_ignoring_offset(p) ==
    LET pos == p.position
    IN  IF 0 <= pos /\ pos < p.n_frames
        THEN [obj |-> [p EXCEPT !.media = set_position(p.media, pos)], calls |-> 1]
        ELSE [obj |-> p, calls |-> 0]

\* MocapPlayer.update_media_position: the player and the number of
\* set_position calls made
update_media_position(p) ==
    LET pos == p.position + p.offset
    IN  IF 0 <= pos /\ pos < p.n_frames
        THEN [obj |-> [p EXCEPT !.media = set_position(p.media, pos)], calls |-> 1]
        ELSE [obj |-> p, calls |-> 0]

\* the player as constructed, nothing loaded
PlayerIdle ==
    /\ player_file = NoFile
    /\ player = MocapPlayer_init(TRUE, FALSE)
    /\ player_op = "none"
    /\ set_position_calls = 0

(***************************************************************************)
(* The Sample dataclass: its compared fields and its setters.  The two     *)
(* colour fields follow the annotation and are left out.                   *)
(***************************************************************************)
\* Sample(start, end, annotation) with __post_init__
new_sample(start, end, a) ==
    [_sort_index |-> start, _start_pos |-> start, _end_pos |-> end,
     _annotation |-> a]

NoneAnnotation == [kind |-> "None", val |-> empty_annotation]
AnnotationValue(a) == [kind |-> "Annotation", val |-> a]
\* what the annotation setter may be handed
AnnotationValues == {NoneAnnotation} \cup {AnnotationValue(a) : a \in AnnotationVectors}

\* start_position (setter)
set_start_position(sample, value) ==
    IF value < 0 THEN [err |-> "ValueError", obj |-> sample]
    ELSE [err |-> "none", obj |-> [sample EXCEPT !._start_pos = value]]

\* end_position (setter)
set_end_position(sample, value) ==
    IF value < 0 THEN [err |-> "ValueError", obj |-> sample]
    ELSE [err |-> "none", obj |-> [sample EXCEPT !._end_pos = value]]

\* annotation (setter)
set_annotation(sample, value) ==
    IF value.kind = "None" THEN [err |-> "ValueError", obj |-> sample]
    ELSE [err |-> "none", obj |-> [sample EXCEPT !._annotation = value.val]]

\* a < b of @dataclass(order=True): the tuples of the fields are compared, the
\* first pair of unequal fields decides; two unequal annotations are left to
\* Annotation's own ordering
sample_lt(a, b) ==
    IF a._sort_index # b._sort_index
    THEN (IF a._sort_index < b._sort_index THEN "True" ELSE "False")
    ELSE IF a._start_pos # b._start_pos
    THEN (IF a._start_pos < b._start_pos THEN "True" ELSE "False")
    ELSE IF a._end_pos # b._end_pos
    THEN (IF a._end_pos < b._end_pos THEN "True" ELSE "False")
    ELSE IF a._annotation # b._annotation THEN "Annotation.__lt__"
    ELSE "False"

NoCall == [op |-> "none", on |-> "none", err |-> "none"]

\* two samples over empty annotations, nothing called
SampleIdle ==
    /\ sample_a = new_sample(0, 0, empty_annotation)
    /\ sample_b = new_sample(0, 0, empty_annotation)
    /\ sample_op = NoCall

(***************************************************************************)
(* The new-annotation dialog.  The files it can be pointed at, with what   *)
(* os.path.isfile, media_type_of and filehandler.meta_data say of them.    *)
(***************************************************************************)
\* if n < 1000
MinFrames == 1000

NoText == ""
DialogFiles == {"long.mp4", "exact.mp4", "short.mp4", "notes.csv", "gone.csv"}
NameTexts == {NoText, "session"}

isfile(text) == text \in {"long.mp4", "exact.mp4", "short.mp4", "notes.csv"}
media_type_of(text) == IF text = "notes.csv" THEN "UNKNOWN" ELSE "VIDEO"
\* the frame count meta_data reports when it does not raise
meta_data(text) ==
    CASE text = "long.mp4" -> MinFrames + MaxExtraFrames
      [] text = "exact.mp4" -> MinFrames
      [] text = "short.mp4" -> MinFrames - 1
      [] OTHER -> 0

\* GlobalState(annotator_id, dataset_description, name, path)
GlobalState(annotator_id, dataset_description, name, path) ==
    [annotator_id |-> annotator_id, dataset |-> dataset_description,
     name |-> name, path |-> path]

\* QNewAnnotationDialog.__init__ with n_datasets datasets configured
dialog_init(n_datasets) ==
    [annotation_name |-> NoText,
     n_datasets |-> n_datasets,
     currentIndex |-> IF n_datasets = 0 THEN -1 ELSE 0,
     line_edit |-> NoText,
     open_enabled |-> FALSE,
     closed |-> FALSE,
     error_box |-> NoText,
     constructed |-> 0,
     emitted |-> <<>>]

\* check_enabled
check_enabled(d) ==
    [d EXCEPT !.open_enabled =
        /\ d.annotation_name # NoText
        /\ d.n_datasets # 0
        /\ isfile(d.line_edit)]

\* the error box is shown, the file field cleared and the form re-validated
reject(d, text) ==
    check_enabled([d EXCEPT !.error_box = text, !.line_edit = NoText])

\* mutant: a media one frame short of the minimum passes
open_pressed_accepting_short(d, probe_raises) ==
    LET c == check_enabled(d)
    IN  IF ~c.open_enabled THEN c
        ELSE IF media_type_of(c.line_edit) = "UNKNOWN"
        THEN reject(c, "Unknown media type.")
        ELSE IF ~probe_raises /\ meta_data(c.line_edit) < MinFrames - 1
        THEN reject(c, "Media too short.")
        ELSE LET session == GlobalState(0, c.currentIndex, c.annotation_name,
                                           c.line_edit)
             IN  [c EXCEPT !.constructed = @ + 1,
                           !.closed = TRUE,
                           !.emitted = Append(@, session)]

\* open_pressed; probe_raises: filehandler.meta_data raises FileNotFoundError
open_pressed(d, probe_raises) ==
    LET c == check_enabled(d)
    IN  IF ~c.open_enabled THEN c
        ELSE IF media_type_of(c.line_edit) = "UNKNOWN"
        THEN reject(c, "Unknown media type.")
        ELSE IF ~probe_raises /\ meta_data(c.line_edit) < MinFrames
        THEN reject(c, "Media too short.")
        ELSE LET session == GlobalState(0, c.currentIndex, c.annotation_name,
                                           c.line_edit)
             IN  [c EXCEPT !.constructed = @ + 1,
                           !.closed = TRUE,
                           !.emitted = Append(@, session)]

\* the dialog as constructed over one dataset
DialogIdle ==
    /\ dialog = dialog_init(1)
    /\ dialog_op = [op |-> "none", probe_raises |-> FALSE]

(***************************************************************************)
(* The main controller: MainApplication.load_state and save_annotation.    *)
(* A session (GlobalState) is the media's frame count and the samples; its *)
(* samples are assigned through the samples setter.                        *)
(***************************************************************************)
\* the samples of the annotation controller: frame ranges within the media
AppSamples ==
    {x \in {Sample(s, e, empty_annotation) : s \in 0..MaxPos, e \in 0..MaxPos} :
        x.start_position <= x.end_position}
\* the lists the annotation controller may hold
ControllerLists == SeqsUpTo(AppSamples, MaxLen)

NoSession == [kind |-> "None", media_frames |-> 0, samples |-> <<>>]
Session(media_frames, samples) ==
    [kind |-> "GlobalState", media_frames |-> media_frames, samples |-> samples]
\* the sessions load_state may be handed: their lists were stored through
\* the samples setter
Sessions ==
    {Session(n, l) : n \in 0..(MaxPos + 1),
                     l \in {x \in ControllerLists : samples_setter(x) = "none"}}

\* MainApplication.__init__
app_init ==
    [global_state |-> NoSession,
     n_frames |-> 0,
     mediator |-> [n_frames |-> 0, position |-> 0, force_update |-> FALSE],
     playback |-> [n_frames |-> 0],
     timeline |-> [range |-> 0],
     media_player |-> [loaded |-> FALSE],
     controller |-> [samples |-> <<>>, n_frames |-> 0]]

\* mutant: the samples are written without the assertion on the last sample
save_annotation_unasserted(a) ==
    IF a.global_state.kind = "None"
    THEN [err |-> "none", obj |-> a, calls |-> <<"logging.info">>]
    ELSE LET samples == a.controller.samples
         IN  IF samples_setter(samples) # "none"
             THEN [err |-> samples_setter(samples), obj |-> a, calls |-> <<"logging.info">>]
             ELSE [err |-> "none",
                   obj |-> [a EXCEPT !.global_state.samples = samples],
                   calls |-> <<"logging.info", "global_state.samples">>]

\* save_annotation: the application afterwards, the exception raised and the
\* calls made
save_annotation(a) ==
    IF a.global_state.kind = "None"
    THEN [err |-> "none", obj |-> a, calls |-> <<"logging.info">>]
    ELSE LET samples == a.controller.samples
             asserted == IF Len(samples) > 0
                         THEN samples[Len(samples)].end_position + 1 = a.n_frames
                         ELSE a.n_frames = 0
         IN  IF ~asserted
             THEN [err |-> "AssertionError", obj |-> a, calls |-> <<"logging.info">>]
             ELSE IF samples_setter(samples) # "none"
             THEN [err |-> samples_setter(samples), obj |-> a, calls |-> <<"logging.info">>]
             ELSE [err |-> "none",
                   obj |-> [a EXCEPT !.global_state.samples = samples],
                   calls |-> <<"logging.info", "global_state.samples">>]

\* the statements of load_state in front of the final save
load_state_calls ==
    <<"media_reader", "FrameTimeMapper.update", "media_player.load",
      "network.update_file", "n_frames", "playback.reset", "global_state",
      "mediator.n_frames", "playback.n_frames", "timeline.set_range",
      "annotation_controller.load", "mediator.set_position">>

\* the application when load_state has run up to its final save
loaded_state(a, state) ==
    LET n_frames == state.media_frames
    IN  [a EXCEPT !.media_player = [loaded |-> TRUE],
                  !.n_frames = n_frames,
                  !.global_state = state,
                  !.mediator = [n_frames |-> n_frames, position |-> 0,
                                force_update |-> TRUE],
                  !.playback = [n_frames |-> n_frames],
                  !.timeline = [range |-> n_frames],
                  !.controller = [samples |-> state.samples, n_frames |-> n_frames]]

\* mutant: the save runs before the mediator is set to position 0
load_state_saving_first(a, state) ==
    IF state.kind = "None" THEN [err |-> "RuntimeError", obj |-> a, calls |-> <<>>]
    ELSE LET r == save_annotation(loaded_state(a, state))
         IN  [err |-> r.err, obj |-> r.obj,
              calls |-> SubSeq(load_state_calls, 1, Len(load_state_calls) - 1)
                        \o <<"save_annotation", "mediator.set_position">>]

\* load_state
load_state(a, state) ==
    IF state.kind = "None" THEN [err |-> "RuntimeError", obj |-> a, calls |-> <<>>]
    ELSE LET r == save_annotation(loaded_state(a, state))
         IN  [err |-> r.err, obj |-> r.obj,
              calls |-> load_state_calls \o <<"save_annotation">>]

NoHandler == [op |-> "none", state |-> NoSession, err |-> "none", calls |-> <<>>]

\* the application as constructed
AppIdle ==
    /\ app = app_init
    /\ app_op = NoHandler

(***************************************************************************)
(* Actions                                                                 *)
(***************************************************************************)
CreateAnnotation(args) ==
    /\ ~annotation.exists
    /\ LET r == create_annotation(args)
       IN  /\ annotation' = r.obj
           /\ lastErr' = r.err
    /\ lastOp' = "create_annotation"
    /\ lastArg' = args
    /\ lastRet' = NoValue
    /\ UNCHANGED nonAnnotationVars

SetSamples(list_of_samples) ==
    /\ annotation.exists
    /\ LET err == samples_setter(list_of_samples)
       IN  /\ lastErr' = err
           /\ annotation' = [annotation EXCEPT
                               !.samples = samples_stored(@, list_of_samples)]
    /\ lastOp' = "samples"
    /\ lastArg' = list_of_samples
    /\ lastRet' = NoValue
    /\ UNCHANGED nonAnnotationVars

ToNumpy ==
    /\ annotation.exists
    /\ lastOp' = "to_numpy"
    /\ lastArg' = NoValue
    /\ lastErr' = "none"
    /\ lastRet' = to_numpy(annotation.samples)
    /\ UNCHANGED annotation
    /\ UNCHANGED nonAnnotationVars

Progress ==
    /\ annotation.exists
    /\ LET r == progress(annotation.samples)
       IN  /\ lastErr' = r.err
           /\ lastRet' = IF r.err = "none" THEN r.val ELSE NoValue
    /\ lastOp' = "progress"
    /\ lastArg' = NoValue
    /\ UNCHANGED annotation
    /\ UNCHANGED nonAnnotationVars

SetPath(path) ==
    /\ annotation.exists
    /\ LET err == path_setter(annotation, path)
       IN  /\ lastErr' = err
           /\ annotation' = IF err = "none"
                            THEN [annotation EXCEPT !.annotated_file = path]
                            ELSE annotation
    /\ lastOp' = "path"
    /\ lastArg' = path
    /\ lastRet' = NoValue
    /\ UNCHANGED nonAnnotationVars

SetAdditionalMediaPaths(paths_with_offsets) ==
    /\ annotation.exists
    /\ LET r == set_additional_media_paths(annotation, paths_with_offsets)
       IN  /\ lastErr' = r.err
           /\ annotation' = r.obj
    /\ lastOp' = "set_additional_media_paths"
    /\ lastArg' = paths_with_offsets
    /\ lastRet' = NoValue
    /\ UNCHANGED nonAnnotationVars

(***************************************************************************)
(* Specifications                                                          *)
(***************************************************************************)
ValidArgs(p) ==
    [annotator_id |-> [kind |-> "int", val |-> 0], dataset |-> "Dataset",
     name |-> [kind |-> "str", val |-> 1], file_path |-> [kind |-> "Path", val |-> p]]

LaraIdle ==
    /\ mocap_file = NoFile
    /\ mocap_result = NotLoaded

\* no Annotation yet
AnnotationIdle ==
    /\ annotation = NoAnnotation
    /\ lastOp = "none"
    /\ lastArg = NoValue
    /\ lastErr = "none"
    /\ lastRet = NoValue

\* no frame handed to calculate_skeleton
SkeletonIdle ==
    /\ skeleton_frame = NoFrame
    /\ skeleton_points = NoPoints

\* the components an operation of one component leaves in their first state
NonAnnotationIdle == LaraIdle /\ SkeletonIdle /\ PlayerIdle /\ SampleIdle /\ DialogIdle /\ AppIdle
NonLaraIdle == AnnotationIdle /\ SkeletonIdle /\ PlayerIdle /\ SampleIdle /\ DialogIdle /\ AppIdle
NonSkeletonIdle == AnnotationIdle /\ LaraIdle /\ PlayerIdle /\ SampleIdle /\ DialogIdle /\ AppIdle
NonPlayerIdle == AnnotationIdle /\ LaraIdle /\ SkeletonIdle /\ SampleIdle /\ DialogIdle /\ AppIdle
NonSampleIdle == AnnotationIdle /\ LaraIdle /\ SkeletonIdle /\ PlayerIdle /\ DialogIdle /\ AppIdle
NonDialogIdle == AnnotationIdle /\ LaraIdle /\ SkeletonIdle /\ PlayerIdle /\ SampleIdle /\ AppIdle
NonAppIdle == AnnotationIdle /\ LaraIdle /\ SkeletonIdle /\ PlayerIdle /\ SampleIdle /\ DialogIdle

InitCreate == AnnotationIdle /\ NonAnnotationIdle

\* an Annotation just constructed over one of the media files
Init ==
    /\ \E p \in {"media", "short"} :
          /\ annotation = create_annotation(ValidArgs(p)).obj
          /\ lastArg = ValidArgs(p)
    /\ lastOp = "create_annotation"
    /\ lastErr = "none"
    /\ lastRet = NoValue
    /\ NonAnnotationIdle

\* construction, and the progress of the new Annotation
NextCreate ==
    \/ \E args \in CreateArgs : CreateAnnotation(args)
    \/ Progress
SpecCreate == InitCreate /\ [][NextCreate]_vars

\* the samples setter and the getters that read the stored list
Next ==
    \/ \E list \in SampleLists : SetSamples(list)
    \/ ToNumpy
Spec == Init /\ [][Next]_vars

\* one assignment to the samples of a new Annotation
NextSetter ==
    /\ lastOp = "create_annotation"
    /\ \E list \in SampleLists : SetSamples(list)
SpecSetter == Init /\ [][NextSetter]_vars

\* the sample lists an annotation session produces: n_cuts cut points split
\* the frames 0 .. n_frames - 1 into consecutive labelled ranges
MaxCuts == 1
RECURSIVE covering(_, _, _, _)
covering(start, n_frames, cuts, labels) ==
    IF cuts = <<>> THEN <<Sample(start, n_frames - 1, labels[1])>>
    ELSE <<Sample(start, Head(cuts), labels[1])>>
         \o covering(Head(cuts) + 1, n_frames, Tail(cuts), Tail(labels))
CoveringLists(n_frames) ==
    {covering(0, n_frames, cuts, labels) :
        cuts \in {c \in SeqsUpTo(0..(n_frames - 2), MaxCuts) :
                      \A i \in 1..(Len(c) - 1) : c[i] < c[i + 1]},
        labels \in [1..(MaxCuts + 1) -> AnnotationVectors]}

NextProgress ==
    \/ \E list \in CoveringLists(media_len(annotation.annotated_file)) :
          SetSamples(list)
    \/ Progress
SpecProgress == Init /\ [][NextProgress]_vars

NextPaths ==
    \/ \E path \in Paths : SetPath(path)
    \/ \E list \in MediaPathLists : SetAdditionalMediaPaths(list)
SpecPaths == Init /\ [][NextPaths]_vars

(***************************************************************************)
(* The LARa reader                                                         *)
(***************************************************************************)
LoadLaraMocap ==
    /\ mocap_result = NotLoaded
    /\ mocap_result' = load_lara_mocap(mocap_file)
    /\ UNCHANGED mocap_file
    /\ UNCHANGED nonLaraVars

InitLara ==
    /\ mocap_file \in MocapFiles
    /\ mocap_result = NotLoaded
    /\ NonLaraIdle

NextLara == LoadLaraMocap
SpecLara == InitLara /\ [][NextLara]_vars

(***************************************************************************)
(* calculate_skeleton                                                      *)
(***************************************************************************)
CalculateSkeleton ==
    /\ skeleton_frame # NoFrame
    /\ skeleton_points = NoPoints
    /\ skeleton_points' = calculate_skeleton(skeleton_frame)
    /\ UNCHANGED skeleton_frame
    /\ UNCHANGED nonSkeletonVars

InitSkeleton ==
    /\ skeleton_frame \in FrameRows
    /\ skeleton_points = NoPoints
    /\ NonSkeletonIdle

NextSkeleton == CalculateSkeleton
SpecSkeleton == InitSkeleton /\ [][NextSkeleton]_vars

(***************************************************************************)
(* The mocap player                                                        *)
(***************************************************************************)
PlayerLoad ==
    /\ ~player.loaded
    /\ player_op # "load raised"
    /\ LET r == player_load(player, player_file)
       IN  /\ player' = r.obj
           /\ player_op' = IF r.err = "none" THEN "load" ELSE "load raised"
           /\ set_position_calls' = IF r.err = "none" THEN set_position_calls + 1
                                    ELSE set_position_calls
    /\ UNCHANGED player_file
    /\ UNCHANGED nonPlayerVars

\* the global position and the offset of the stream change, then
\* update_media_position runs
UpdateMediaPosition(position, offset) ==
    /\ player.loaded
    /\ set_position_calls < MaxUpdates
    /\ LET r == update_media_position([player EXCEPT !.position = position,
                                                     !.offset = offset])
       IN  /\ player' = r.obj
           /\ set_position_calls' = set_position_calls + r.calls
    /\ player_op' = "update_media_position"
    /\ UNCHANGED player_file
    /\ UNCHANGED nonPlayerVars

\* MocapPlayer.set_floor_grid
SetFloorGrid(enable, dynamic) ==
    /\ set_position_calls < MaxUpdates
    /\ LET r == set_floor_grid(player.media, enable, dynamic)
       IN  /\ player' = [player EXCEPT !.media = r.obj]
           /\ set_position_calls' = set_position_calls + r.calls
    /\ player_op' = "set_floor_grid"
    /\ UNCHANGED player_file
    /\ UNCHANGED nonPlayerVars

InitPlayer ==
    /\ player_file \in PlayerFiles
    /\ \E show_mocap_grid \in BOOLEAN, use_dynamic_mocap_grid \in BOOLEAN :
          player = MocapPlayer_init(show_mocap_grid, use_dynamic_mocap_grid)
    /\ player_op = "none"
    /\ set_position_calls = 0
    /\ NonPlayerIdle

NextPlayer ==
    \/ PlayerLoad
    \/ \E position \in -1..MaxRows, offset \in -MaxOffset..MaxOffset :
          UpdateMediaPosition(position, offset)
    \/ \E enable \in BOOLEAN, dynamic \in BOOLEAN : SetFloorGrid(enable, dynamic)
SpecPlayer == InitPlayer /\ [][NextPlayer]_vars

(***************************************************************************)
(* Two Sample objects                                                      *)
(***************************************************************************)
SetStartPosition(value) ==
    /\ \/ LET r == set_start_position(sample_a, value)
          IN  /\ sample_a' = r.obj
              /\ sample_op' = [op |-> "start_position", on |-> "a", err |-> r.err]
              /\ UNCHANGED sample_b
       \/ LET r == set_start_position(sample_b, value)
          IN  /\ sample_b' = r.obj
              /\ sample_op' = [op |-> "start_position", on |-> "b", err |-> r.err]
              /\ UNCHANGED sample_a
    /\ UNCHANGED nonSampleVars

SetEndPosition(value) ==
    /\ \/ LET r == set_end_position(sample_a, value)
          IN  /\ sample_a' = r.obj
              /\ sample_op' = [op |-> "end_position", on |-> "a", err |-> r.err]
              /\ UNCHANGED sample_b
       \/ LET r == set_end_position(sample_b, value)
          IN  /\ sample_b' = r.obj
              /\ sample_op' = [op |-> "end_position", on |-> "b", err |-> r.err]
              /\ UNCHANGED sample_a
    /\ UNCHANGED nonSampleVars

SetAnnotation(value) ==
    /\ \/ LET r == set_annotation(sample_a, value)
          IN  /\ sample_a' = r.obj
              /\ sample_op' = [op |-> "annotation", on |-> "a", err |-> r.err]
              /\ UNCHANGED sample_b
       \/ LET r == set_annotation(sample_b, value)
          IN  /\ sample_b' = r.obj
              /\ sample_op' = [op |-> "annotation", on |-> "b", err |-> r.err]
              /\ UNCHANGED sample_a
    /\ UNCHANGED nonSampleVars

\* two samples just constructed
InitSample ==
    /\ \E s \in Positions, e \in Positions, a \in AnnotationVectors :
          sample_a = new_sample(s, e, a)
    /\ \E s \in Positions, e \in Positions, a \in AnnotationVectors :
          sample_b = new_sample(s, e, a)
    /\ sample_op = NoCall
    /\ NonSampleIdle

NextSample ==
    \/ \E value \in Positions : SetStartPosition(value)
    \/ \E value \in Positions : SetEndPosition(value)
    \/ \E value \in AnnotationValues : SetAnnotation(value)
SpecSample == InitSample /\ [][NextSample]_vars

(***************************************************************************)
(* The new-annotation dialog                                               *)
(***************************************************************************)
\* the name field is edited: textChanged runs check_enabled
EditName(text) ==
    /\ ~dialog.closed
    /\ dialog' = check_enabled([dialog EXCEPT !.annotation_name = text])
    /\ dialog_op' = [op |-> "annotation_name", probe_raises |-> FALSE]
    /\ UNCHANGED nonDialogVars

\* select_input_source: the chosen file name is put into the field
SelectInputSource(filename) ==
    /\ ~dialog.closed
    /\ dialog' = check_enabled([dialog EXCEPT !.line_edit = filename])
    /\ dialog_op' = [op |-> "select_input_source", probe_raises |-> FALSE]
    /\ UNCHANGED nonDialogVars

OpenPressed(probe_raises) ==
    /\ ~dialog.closed
    /\ dialog' = open_pressed(dialog, probe_raises)
    /\ dialog_op' = [op |-> "open_pressed", probe_raises |-> probe_raises]
    /\ UNCHANGED nonDialogVars

CancelPressed ==
    /\ ~dialog.closed
    /\ dialog' = [dialog EXCEPT !.closed = TRUE]
    /\ dialog_op' = [op |-> "cancel_pressed", probe_raises |-> FALSE]
    /\ UNCHANGED nonDialogVars

InitDialog ==
    /\ \E n_datasets \in 0..MaxDatasets : dialog = dialog_init(n_datasets)
    /\ dialog_op = [op |-> "none", probe_raises |-> FALSE]
    /\ NonDialogIdle

NextDialog ==
    \/ \E text \in NameTexts : EditName(text)
    \/ \E filename \in DialogFiles \cup {NoText} : SelectInputSource(filename)
    \/ \E probe_raises \in BOOLEAN : OpenPressed(probe_raises)
    \/ CancelPressed
SpecDialog == InitDialog /\ [][NextDialog]_vars

(***************************************************************************)
(* The main controller                                                     *)
(***************************************************************************)
LoadState(state) ==
    /\ LET r == load_state(app, state)
       IN  /\ app' = r.obj
           /\ app_op' = [op |-> "load_state", state |-> state, err |-> r.err,
                         calls |-> r.calls]
    /\ UNCHANGED nonAppVars

SaveAnnotation ==
    /\ LET r == save_annotation(app)
       IN  /\ app' = r.obj
           /\ app_op' = [op |-> "save_annotation", state |-> NoSession,
                         err |-> r.err, calls |-> r.calls]
    /\ UNCHANGED nonAppVars

\* the user edits the samples in the annotation controller
ControllerEdit(samples) ==
    /\ app' = [app EXCEPT !.controller.samples = samples]
    /\ app_op' = [op |-> "edit", state |-> NoSession, err |-> "none", calls |-> <<>>]
    /\ UNCHANGED nonAppVars

InitApp ==
    /\ app = app_init
    /\ app_op = NoHandler
    /\ NonAppIdle

NextApp ==
    \/ \E state \in Sessions \cup {NoSession} : LoadState(state)
    \/ SaveAnnotation
    \/ \E samples \in ControllerLists : ControllerEdit(samples)
SpecApp == InitApp /\ [][NextApp]_vars


\* an Annotation just constructed over the one-frame media file
InitShort ==
    /\ annotation = create_annotation(ValidArgs("short")).obj
    /\ lastArg = ValidArgs("short")
    /\ lastOp = "create_annotation"
    /\ lastErr = "none"
    /\ lastRet = NoValue
    /\ NonAnnotationIdle

\* the lists the samples setter raises for; the setter reads no annotation of
\* an element, so the samples in them carry the empty one
RejectedLists ==
    {list \in SeqsUpTo({e \in ListElements : e.annotation = empty_annotation}, MaxLen) :
        samples_setter(list) # "none"}

\* a session stores its lists; after a list was stored, one that the setter
\* rejects is assigned
NextReject ==
    \/ \E list \in CoveringLists(media_len(annotation.annotated_file)) :
          SetSamples(list)
    \/ /\ lastErr = "none"
       /\ \E list \in RejectedLists : SetSamples(list)
SpecReject == InitShort /\ [][NextReject]_vars

(***************************************************************************)
(* Properties of the Annotation                                            *)
(***************************************************************************)
\* frame f lies in the range of sample s
Covers(s, f) == s.start_position <= f /\ f <= s.end_position

\* the list is non-empty, holds only samples, starts at 0 and has no gap
GapFree(list) ==
    /\ Len(list) > 0
    /\ \A i \in 1..Len(list) : list[i].kind = "Sample"
    /\ list[1].start_position = 0
    /\ \A i \in 2..Len(list) :
          list[i].start_position = list[i - 1].end_position + 1

\* C1: the stored sample list is always non-empty, starts at 0, has no gap
\* and is in position order: starts strictly increase, no two samples overlap.
C1_StoredSamplesGapFreeAndOrdered ==
    annotation.exists =>
        LET s == annotation.samples
        IN  /\ GapFree(s)
            /\ \A i \in 1..Len(s) : \A j \in 1..Len(s) :
                  i < j =>
                     /\ s[i].start_position < s[j].start_position
                     /\ ~ \E f \in -1..MaxPos : Covers(s[i], f) /\ Covers(s[j], f)

\* C2: an assignment to samples succeeds exactly when the list is non-empty,
\* holds only samples, starts at 0 and has no gap; then the getter returns the
\* list, and every other assignment raises ValueError.
C2_SetterAcceptsExactlyGapFree ==
    lastOp = "samples" =>
        /\ (lastErr = "none") <=> GapFree(lastArg)
        /\ GapFree(lastArg) => annotation.samples = lastArg
        /\ ~GapFree(lastArg) => lastErr = "ValueError"

C2_Witness ==
    /\ lastOp = "samples"
    /\ lastErr = "none"
    /\ Len(lastArg) = 2
    /\ annotation.samples = lastArg

\* the four failures C3 names
NamedFailure(args) ==
    \/ args.file_path.kind = "Path" /\ ~is_file(args.file_path.val)
    \/ args.name.kind = "str" /\ args.name.val = 0
    \/ args.annotator_id.kind = "int" /\ args.annotator_id.val < 0
    \/ args.dataset = "None"

\* every argument has its type, and the path, if it exists, is a media file
\* that is not empty
OtherwiseValid(args) ==
    /\ args.dataset \in {"None", "Dataset"}
    /\ args.name.kind = "str"
    /\ args.annotator_id.kind = "int"
    /\ args.file_path.kind = "Path"
    /\ is_file(args.file_path.val) => getsize(args.file_path.val) > 0

\* C3: create_annotation raises ValueError when the path does not exist, the
\* name is empty, the annotator id is negative or the dataset is absent; with
\* otherwise valid arguments it fails in no other case; an AssertionError
\* never escapes.
C3_CreateFailsExactlyOnInvalid ==
    lastOp = "create_annotation" =>
        /\ NamedFailure(lastArg) => lastErr = "ValueError" /\ ~annotation.exists
        /\ (OtherwiseValid(lastArg) /\ ~NamedFailure(lastArg)) =>
              lastErr = "none" /\ annotation.exists
        /\ lastErr # "AssertionError"

C3_Witness ==
    /\ lastOp = "create_annotation"
    /\ lastErr = "ValueError"
    /\ lastArg.annotator_id = [kind |-> "int", val |-> -1]
    /\ lastArg.dataset = "Dataset"
    /\ lastArg.name = [kind |-> "str", val |-> 1]
    /\ lastArg.file_path = [kind |-> "Path", val |-> "media"]

\* C4: a new Annotation over a file of n frames has exactly one sample, it
\* spans 0 .. n - 1 and holds the empty annotation, and progress is 0.
C4_FreshAnnotationOneEmptySample ==
    /\ (lastOp = "create_annotation" /\ lastErr = "none") =>
          /\ Len(annotation.samples) = 1
          /\ annotation.samples[1].kind = "Sample"
          /\ annotation.samples[1].start_position = 0
          /\ annotation.samples[1].end_position
                = media_len(annotation.annotated_file) - 1
          /\ is_empty(annotation.samples[1].annotation)
          /\ Len(annotation.samples[1].annotation) = SchemeDim
    /\ lastOp = "progress" => lastErr = "none" /\ lastRet = 0

C4_Witness ==
    /\ lastOp = "progress"
    /\ lastRet = 0
    /\ annotation.samples[1].end_position = MaxFrames - 1

\* the least integer >= x / n, for n > 0
CeilDiv(x, n) == -((-x) \div n)

\* C5: progress is the ceiling of 100 * (frames of the samples with a
\* non-empty annotation) / (end of the last sample + 1).
C5_ProgressIsCeilingOfPercent ==
    (lastOp = "progress" /\ lastErr = "none") =>
        LET s == annotation.samples
        IN  lastRet = CeilDiv(100 * n_annotated(s), s[Len(s)].end_position + 1)

\* C6: to_numpy returns end of the last sample + 1 rows, one per frame, and
\* row f is the annotation vector of the one sample that covers frame f.
C6_ToNumpyOneRowPerFrame ==
    lastOp = "to_numpy" =>
        LET s == annotation.samples
            n == s[Len(s)].end_position + 1
        IN  /\ Len(lastRet) = n
            /\ \A f \in 0..(n - 1) :
                  \E i \in 1..Len(s) :
                     /\ Covers(s[i], f)
                     /\ \A j \in 1..Len(s) : Covers(s[j], f) => j = i
                     /\ f + 1 <= Len(lastRet)
                     /\ lastRet[f + 1] = s[i].annotation
                     /\ Len(lastRet[f + 1]) = SchemeDim

\* C7: assigning path an existing file with the recorded fingerprint succeeds
\* and the getter returns it; any other assignment fails.
C7_PathSetterAcceptsSameFingerprint ==
    lastOp = "path" =>
        IF is_file(lastArg) /\ footprint_of_file(lastArg) = annotation.file_hash
        THEN lastErr = "none" /\ annotation.annotated_file = lastArg
        ELSE lastErr # "none"

\* C8: set_additional_media_paths stores the given pairs, in order, when every
\* path exists; if one is missing it raises FileNotFoundError and the stored
\* list stays as it was.
C8_AdditionalPathsAllOrNothing ==
    [][lastOp' = "set_additional_media_paths" =>
          IF \A i \in 1..Len(lastArg') : is_file(lastArg'[i][1])
          THEN /\ lastErr' = "none"
               /\ annotation'.additional_media_paths = lastArg'
          ELSE /\ lastErr' = "FileNotFoundError"
               /\ annotation'.additional_media_paths
                     = annotation.additional_media_paths]_vars

C8_Witness ==
    /\ lastOp = "set_additional_media_paths"
    /\ lastErr = "FileNotFoundError"
    /\ Len(lastArg) = 2
    /\ is_file(lastArg[1][1])
    /\ Len(annotation.additional_media_paths) > 0

(***************************************************************************)
(* Properties of the LARa reader                                           *)
(***************************************************************************)
HasDataRow(file) == \E i \in 1..Len(file.lines) : is_data_row(file.lines[i])
\* number of lines in front of the first data row
LinesBeforeData(file) ==
    (CHOOSE i \in 1..Len(file.lines) :
        /\ is_data_row(file.lines[i])
        /\ \A k \in 1..(i - 1) : ~is_data_row(file.lines[k])) - 1
Loaded == mocap_result # NotLoaded

IsTable(file, h, cols) ==
    /\ file.exists
    /\ Len(file.lines) > h
    /\ \A i \in 1..Len(file.lines) :
          IF i <= h THEN file.lines[i].kind = "text"
          ELSE file.lines[i].kind = "numeric" /\ Len(file.lines[i].values) = cols
\* value of column c (from 0) of frame f (from 1) of the table in the file
TableValue(file, h, f, c) == file.lines[h + f].values[c + 1]

\* C10: of a table with 5 header lines and 134 columns the loaded array has
\* the 2 leading columns removed; in every frame the lower-back block is zero
\* and every other block is the original block minus the original lower-back
\* block of the frame.
C10_NormalizedRelativeToLowerBack ==
    (Loaded /\ IsTable(mocap_file, 5, FullColumns)) =>
        /\ Len(mocap_file.lines) - 5 >= 2 => mocap_result.err = "none"
        /\ mocap_result.err = "none" =>
              /\ Len(mocap_result.array) = Len(mocap_file.lines) - 5
              /\ \A f \in 1..Len(mocap_result.array) :
                    /\ Len(mocap_result.array[f]) = DataColumns
                    /\ \A seg \in 0..(SegmentCount - 1) : \A k \in 0..(SegmentWidth - 1) :
                          mocap_result.array[f][seg * SegmentWidth + k + 1] =
                             IF seg * SegmentWidth = LowerBackColumn THEN 0
                             ELSE TableValue(mocap_file, 5, f, 2 + seg * SegmentWidth + k)
                                  - TableValue(mocap_file, 5, f, 2 + LowerBackColumn + k)

C10_Witness ==
    /\ Loaded
    /\ IsTable(mocap_file, 5, FullColumns)
    /\ mocap_result.err = "none"
    /\ Len(mocap_result.array) = 2
    /\ mocap_result.array[1] # mocap_result.array[2]
    /\ \E c \in 0..(SegmentWidth - 1) :
          TableValue(mocap_file, 5, 1, 2 + LowerBackColumn + c) # 0

\* C11 (as stated): of a table with 1 header line and 134 columns the loaded
\* array is the table without its 2 leading columns, every value as in the file.
C11_OneHeaderLineOnlyDropsLeadingColumns ==
    (Loaded /\ IsTable(mocap_file, 1, FullColumns)) =>
        /\ Len(mocap_file.lines) - 1 >= 2 => mocap_result.err = "none"
        /\ mocap_result.err = "none" =>
              /\ Len(mocap_result.array) = Len(mocap_file.lines) - 1
              /\ \A f \in 1..Len(mocap_result.array) :
                    /\ Len(mocap_result.array[f]) = DataColumns
                    /\ \A c \in 0..(DataColumns - 1) :
                          mocap_result.array[f][c + 1] =
                             TableValue(mocap_file, 1, f, 2 + c)

\* C11 (amended): of a table with 1 header line and 134 columns the loaded
\* array has the 2 leading columns removed and, as with 5 header lines, the
\* frame's lower-back block subtracted from every block.
C11_OneHeaderLineIsNormalizedToo ==
    (Loaded /\ IsTable(mocap_file, 1, FullColumns)) =>
        /\ Len(mocap_file.lines) - 1 >= 2 => mocap_result.err = "none"
        /\ mocap_result.err = "none" =>
              /\ Len(mocap_result.array) = Len(mocap_file.lines) - 1
              /\ \A f \in 1..Len(mocap_result.array) :
                    /\ Len(mocap_result.array[f]) = DataColumns
                    /\ \A seg \in 0..(SegmentCount - 1) : \A k \in 0..(SegmentWidth - 1) :
                          mocap_result.array[f][seg * SegmentWidth + k + 1] =
                             TableValue(mocap_file, 1, f, 2 + seg * SegmentWidth + k)
                             - TableValue(mocap_file, 1, f, 2 + LowerBackColumn + k)

C11_Witness ==
    /\ Loaded
    /\ IsTable(mocap_file, 1, FullColumns)
    /\ mocap_result.err = "none"
    /\ Len(mocap_result.array) = 2
    /\ \E c \in 0..(SegmentWidth - 1) :
          TableValue(mocap_file, 1, 1, 2 + LowerBackColumn + c) # 0
    /\ \E c \in 0..(DataColumns - 1) :
          mocap_result.array[1][c + 1] # TableValue(mocap_file, 1, 1, 2 + c)

(***************************************************************************)
(* Properties of the mocap visualizer                                      *)
(***************************************************************************)
\* the parent of each segment 0..21
SegmentParent ==
    <<2, 0, 11, 6, 21, 7, 2, 4, 5, 3, 9, 11, 11, 16, 21, 17, 12, 14, 15, 13, 19, 11>>
\* the translation triple of segment seg (columns 6 seg + 3 .. 6 seg + 5) of
\* the frame, divided by 1000
TranslationInMetres(frame, seg) ==
    [c \in 1..3 |-> [num |-> frame[6 * seg + 3 + (c - 1) + 1], den |-> 1000]]

\* C12: calculate_skeleton returns 44 points; for each segment i in 0..21,
\* row 2i is the translation triple of segment i and row 2i+1 that of the
\* segment's parent, all divided by 1000.
C12_SkeletonJoinsEachSegmentToItsParent ==
    skeleton_points # NoPoints =>
        /\ Len(skeleton_points) = 44
        /\ \A i \in 0..21 :
              /\ skeleton_points[2 * i + 1] = TranslationInMetres(skeleton_frame, i)
              /\ skeleton_points[2 * i + 2] =
                    TranslationInMetres(skeleton_frame, SegmentParent[i + 1])

C12_Witness ==
    /\ skeleton_points # NoPoints
    /\ \A i \in 0..21 :
          i # 11 => skeleton_points[2 * i + 1] # skeleton_points[2 * i + 2]
    /\ \E i \in 0..21 : skeleton_points[2 * i + 1][3].num < 0

\* the frame the backend is positioned at, as loaded
CurrentFrame(p) == p.media.frames[p.media.position.val + 1]
\* the z-coordinates of the source points (rows 2i) of L toe, R toe, L foot
\* and R foot
FootHeights(skeleton) == {skeleton[2 * i + 1][3] : i \in {8, 18, 5, 15}}
\* the least of them
MinFootHeight(skeleton) ==
    CHOOSE h \in FootHeights(skeleton) :
        \A g \in FootHeights(skeleton) : ~rat_less(g, h)
\* the lesser of 0 and the least foot/toe source height (as a set: equal
\* numbers may be written differently)
LoweringHeights(skeleton) ==
    {h \in FootHeights(skeleton) \cup {rat(0)} :
        \A g \in FootHeights(skeleton) \cup {rat(0)} : ~rat_less(g, h)}
\* a step in which MocapBackend.set_position ran
PositionUpdated == set_position_calls' = set_position_calls + 1

SkeletonShownCorrectly(p) ==
    /\ Len(p.media.current_skeleton) = 44
    /\ \E height \in (IF p.media.dynamic_floor THEN LoweringHeights(CurrentFrame(p))
                       ELSE {rat(0)}) :
          \A k \in 1..44 : \A c \in 1..3 :
             rat_equal(p.media.current_skeleton[k][c],
                       rat_sub(CurrentFrame(p)[k][c], height))

\* C19: a set_floor_grid call that changes the dynamic flag while media is
\* loaded re-runs set_position at the current position, whatever the
\* position, so the skeleton shown is the one of the new tracking mode.
C19_TogglingDynamicReappliesCurrentPosition ==
    [][(/\ player_op' = "set_floor_grid"
        /\ player.loaded
        /\ player'.media.dynamic_floor # player.media.dynamic_floor) =>
          /\ PositionUpdated
          /\ player'.media.position = player.media.position
          /\ SkeletonShownCorrectly(player')]_vars

\* C20: once media is loaded the backend's position is inside [0, n_frames);
\* update_media_position sets it to global position + offset when that is
\* inside the range and leaves it unchanged otherwise.
C20_BackendPositionStaysInRange ==
    [][/\ player'.loaded =>
             /\ player'.media.position.kind = "int"
             /\ 0 <= player'.media.position.val
             /\ player'.media.position.val < player'.n_frames
             /\ player'.n_frames = Len(player'.media.frames)
       /\ player_op' = "update_media_position" =>
             LET pos == player'.position + player'.offset
             IN  IF 0 <= pos /\ pos < player'.n_frames
                 THEN player'.media.position = [kind |-> "int", val |-> pos]
                 ELSE player'.media.position = player.media.position]_vars

C20_Witness ==
    /\ player.loaded
    /\ player_op = "update_media_position"
    /\ player.offset # 0
    /\ player.position + player.offset >= player.n_frames
    /\ player.media.position.val = player.n_frames - 1
    /\ set_position_calls >= 2

(***************************************************************************)
(* Properties of the Sample                                                *)
(***************************************************************************)
\* C17: of two samples the one with the smaller start_position compares as
\* less (<), after construction and after any setter calls.
C17_OrderFollowsStartPosition ==
    /\ sample_a._start_pos < sample_b._start_pos => sample_lt(sample_a, sample_b) = "True"
    /\ sample_b._start_pos < sample_a._start_pos => sample_lt(sample_b, sample_a) = "True"

\* C18: a sample has start_position >= 0, end_position >= 0 and
\* start_position <= end_position after construction and after every setter
\* call; a setter call that raises leaves the sample as it was.
C18_PositionsNonNegativeAndOrdered ==
    [][/\ \A s \in {sample_a', sample_b'} :
             /\ s._start_pos >= 0
             /\ s._end_pos >= 0
             /\ s._start_pos <= s._end_pos
       /\ sample_op'.err # "none" => UNCHANGED <<sample_a, sample_b>>]_vars

(***************************************************************************)
(* Properties of the new-annotation dialog                                 *)
(***************************************************************************)
\* a step of open_pressed
OpenPressedStep == dialog_op'.op = "open_pressed"
\* the step emitted load_annotation
Emitted == Len(dialog'.emitted) > Len(dialog.emitted)
\* the form as Open requires it: a name, a dataset, an existing file
FormComplete ==
    /\ dialog.annotation_name # ""
    /\ dialog.n_datasets >= 1
    /\ isfile(dialog.line_edit)
\* the media of the chosen file reports at least / fewer than n frames
MediaReportsAtLeast(n) == ~dialog_op'.probe_raises /\ meta_data(dialog.line_edit) >= n
MediaReportsFewerThan(n) == ~dialog_op'.probe_raises /\ meta_data(dialog.line_edit) < n
\* nothing emitted, no session constructed, file field cleared, Open disabled
Rejected ==
    /\ dialog'.emitted = dialog.emitted
    /\ dialog'.constructed = dialog.constructed
    /\ dialog'.line_edit = ""
    /\ ~dialog'.open_enabled

\* C14 (as stated): one open_pressed emits load_annotation at most once, and
\* only if the form is complete, the media type is known and the media
\* reports at least 1000 frames; with an unknown media type or fewer than
\* 1000 frames it emits nothing, constructs no session, clears the file field
\* and leaves Open disabled.
C14_EmitsOnlyForKnownMediaOfAtLeast1000Frames ==
    [][OpenPressedStep =>
          /\ Len(dialog'.emitted) <= Len(dialog.emitted) + 1
          /\ Emitted =>
                /\ FormComplete
                /\ media_type_of(dialog.line_edit) # "UNKNOWN"
                /\ MediaReportsAtLeast(1000)
          /\ (FormComplete /\ (\/ media_type_of(dialog.line_edit) = "UNKNOWN"
                               \/ MediaReportsFewerThan(1000))) => Rejected]_vars

\* C14 (amended): one open_pressed emits load_annotation at most once, and
\* only if the form is complete, the media type is known and the media does
\* not report fewer than 1000 frames (a length probe that fails with
\* FileNotFoundError is passed over); with an unknown media type or a
\* reported length below 1000 it emits nothing, constructs no session, clears
\* the file field and leaves Open disabled.
C14_EmitsUnlessMediaReportsFewerThan1000Frames ==
    [][OpenPressedStep =>
          /\ Len(dialog'.emitted) <= Len(dialog.emitted) + 1
          /\ Emitted =>
                /\ FormComplete
                /\ media_type_of(dialog.line_edit) # "UNKNOWN"
                /\ ~MediaReportsFewerThan(1000)
          /\ (FormComplete /\ (\/ media_type_of(dialog.line_edit) = "UNKNOWN"
                               \/ MediaReportsFewerThan(1000))) => Rejected]_vars

C14_Witness ==
    /\ dialog_op = [op |-> "open_pressed", probe_raises |-> TRUE]
    /\ Len(dialog.emitted) = 1
    /\ dialog.emitted[1].path = "short.mp4"
    /\ dialog.emitted[1].name = "session"
    /\ dialog.closed

(***************************************************************************)
(* Properties of the main controller                                       *)
(***************************************************************************)
\* the list is not empty and its last sample ends at frame n - 1
EndsAt(samples, n) ==
    /\ Len(samples) > 0
    /\ samples[Len(samples)].end_position = n - 1
\* index of the call in the sequence of calls, 0 if it was not made
IndexOf(calls, name) ==
    IF \E i \in 1..Len(calls) : calls[i] = name
    THEN CHOOSE i \in 1..Len(calls) : calls[i] = name
    ELSE 0
Count(calls, name) == Cardinality({i \in 1..Len(calls) : calls[i] = name})

\* C15: save_annotation without an active session changes nothing; with one,
\* a save that completes leaves the session's samples equal to the
\* controller's list, which ends at n_frames - 1; a list that does not end
\* there is never written into the session.
C15_SaveWritesOnlyListsEndingAtLastFrame ==
    [][/\ (app_op'.op = "save_annotation" /\ app.global_state.kind = "None") =>
             /\ app' = app
             /\ app_op'.err = "none"
       /\ (app_op'.op = "save_annotation" /\ app.global_state.kind # "None") =>
             /\ app_op'.err = "none" =>
                   /\ app'.global_state.samples = app.controller.samples
                   /\ app'.controller = app.controller
                   /\ EndsAt(app.controller.samples, app.n_frames)
             /\ ~EndsAt(app.controller.samples, app.n_frames) =>
                   app'.global_state = app.global_state
       /\ (app_op'.op = "load_state" /\ app_op'.state.kind # "None") =>
             /\ app_op'.err = "none" =>
                   /\ app'.global_state.samples = app'.controller.samples
                   /\ EndsAt(app'.controller.samples, app'.n_frames)
             /\ ~EndsAt(app'.controller.samples, app'.n_frames) =>
                   app_op'.err # "none"]_vars

C15_Witness ==
    /\ app_op.op = "save_annotation"
    /\ app_op.err = "none"
    /\ app.global_state.kind = "GlobalState"
    /\ app.n_frames = 2
    /\ Len(app.global_state.samples) = 2
    /\ app.global_state.samples = app.controller.samples

\* C16: load_state without a session raises RuntimeError and changes
\* nothing; with a session it makes the session the active one, sets the
\* application's, the mediator's and the playback's n_frames to the media's
\* frame count, loads the annotation controller with the session's samples,
\* after all of that forces the mediator to position 0, and then saves
\* exactly once, last.
C16_LoadStateOrder ==
    [][app_op'.op = "load_state" =>
          IF app_op'.state.kind = "None"
          THEN /\ app_op'.err = "RuntimeError"
               /\ app' = app
               /\ app_op'.calls = <<>>
          ELSE LET calls == app_op'.calls
                   forced == IndexOf(calls, "mediator.set_position")
               IN  /\ app'.global_state = app_op'.state
                   /\ app'.n_frames = app_op'.state.media_frames
                   /\ app'.mediator.n_frames = app_op'.state.media_frames
                   /\ app'.playback.n_frames = app_op'.state.media_frames
                   /\ app'.controller.samples = app_op'.state.samples
                   /\ app'.mediator.position = 0
                   /\ app'.mediator.force_update
                   /\ \A name \in {"global_state", "n_frames", "mediator.n_frames",
                                   "playback.n_frames", "annotation_controller.load"} :
                         /\ IndexOf(calls, name) > 0
                         /\ IndexOf(calls, name) < forced
                   /\ Count(calls, "save_annotation") = 1
                   /\ IndexOf(calls, "save_annotation") = forced + 1
                   /\ IndexOf(calls, "save_annotation") = Len(calls)]_vars

C16_Witness ==
    /\ app_op.op = "load_state"
    /\ app_op.state.kind = "GlobalState"
    /\ app_op.err = "none"
    /\ app.n_frames = 2
    /\ app.mediator.n_frames = 2
    /\ Len(app.controller.samples) = 2
    /\ app.global_state = app_op.state


\* the call just made is an assignment to samples that raised
SetterRejected == lastOp' = "samples" /\ lastErr' # "none"

\* C21: an assignment to samples that is rejected (empty list, None or
\* non-Sample element, or a gap at any index, also behind elements that passed)
\* leaves the stored list, and with it progress and to_numpy(), as they were
\* before the call.
C21_RejectedSetterLeavesSamples ==
    [][SetterRejected =>
          /\ annotation'.samples = annotation.samples
          /\ progress(annotation'.samples) = progress(annotation.samples)
          /\ to_numpy(annotation'.samples) = to_numpy(annotation.samples)]_vars

\* a list whose first sample passed the check and whose second leaves a gap
\* was rejected after a session had replaced the list of the new Annotation
C21_Witness ==
    /\ lastOp = "samples"
    /\ lastErr = "ValueError"
    /\ Len(lastArg) = 2
    /\ samples_setter(<<lastArg[1]>>) = "none"
    /\ annotation.samples # init_samples(annotation.annotated_file)

====
